---- MODULE Spec2Model ----
(***************************************************************************)
(* TwitchFACEITBot (src/BotTwitch.py): the !elo command gate and its       *)
(* background thread, the Elo history file with its read-modify-write      *)
(* operations, the daily-reset timer thread, and the match classifier.     *)
(*                                                                         *)
(* The specifications:                                                     *)
(*   Spec       the running bot: run-loop thread, !elo threads, timer      *)
(*              thread, interleaved statement by statement where they      *)
(*              touch shared state (the file, last_elo_time, the thread)   *)
(*   SpecStore  the store operations applied one after another             *)
(*   SpecMatch  _analyze_match applied to one match record                 *)
(*   SpecFetch  get_faceit_stats and _get_daily_matches applied to the      *)
(*              responses of the two FACEIT requests                       *)
(*   SpecSession run() as the owner of the IRC socket: connect, the read   *)
(*              loop with keep-alive and command dispatch, _reconnect,     *)
(*              the exception handlers and the interrupt                   *)
(***************************************************************************)
EXTENDS Integers, Sequences, FiniteSets, TLC

\* ------------------------------------------------------------------ bounds
\* The clock runs for Horizon ticks from the instant run() is called.
Horizon == 5
\* Number of !elo threads one run may spawn.
MaxThreads == 2
\* SpecStore appends ratings 0..MaxRating (0 is the "unavailable" sentinel).
MaxRating == 2
\* The remote API reports ratings 0..MaxElo.
MaxElo == 1
\* Clock ticks per calendar day (a shortened day; 04:00 falls inside it).
DayLen == 6
\* Longest history SpecStore builds by append.
StoreMaxLen == 3
\* Longest 'items' list the match-history endpoint returns in SpecFetch.
MaxItems == 3

\* ------------------------------------------------------- program constants
\* self.elo_cooldown = 5
elo_cooldown == 5
\* now.replace(hour=4, ...): the reset instant inside a day
ResetHour == 4

Threads == 1..MaxThreads
Ratings == 0..MaxRating
Elos == 0..MaxElo

VARIABLES
    now,                \* the clock, as time.time() / datetime.now() last read it
    elo_file,           \* content of ELO_FILE
    last_elo_time,      \* self.last_elo_time
    pending_elo_thread, \* self.pending_elo_thread (0 = None, else a thread id)
    rpc,                \* position of the thread executing run()
    current_time,       \* local of _handle_elo_command
    seen_stamp,         \* history: last_elo_time as the cooldown test read it
    last_outcome,       \* history: how _handle_elo_command ended
    r_hist,             \* local 'history' of clean_old_elo_records
    tpc,                \* position of each !elo thread in _process_elo
    tstats,             \* its stats['Elo']
    tdelta,             \* its daily_change
    tts,                \* its 'timestamp' in save_elo_record
    thist,              \* its 'history' in save_elo_record
    treply,             \* what its send_message call did
    tdispatch,          \* history: current_time of the command that spawned it
    tmpc,               \* position of the threading.Timer thread
    next_reset,         \* instant the pending Timer is armed for
    timers,             \* number of Timers started and not fired yet
    tm_entry,           \* local 'new_entry' of reset_daily_stats
    store_op,           \* SpecStore: the operation applied last
    store_prev,         \* SpecStore: the operation applied before it
    store_pre,          \* SpecStore: the file before the last operation
    store_arg,          \* SpecStore: the rating given to the last append
    store_ret,          \* SpecStore: the value the last operation returned
    match,              \* SpecMatch: the match record
    outcome,            \* SpecMatch: what _analyze_match returned
    fetch_presp,        \* SpecFetch: what the players request does
    fetch_mresp,        \* SpecFetch: what the match-history request does
    fetch_op,           \* SpecFetch: the function that was called
    fetch_counts,       \* SpecFetch: outcome of _get_daily_matches
    fetch_stats,        \* SpecFetch: outcome of get_faceit_stats
    running,            \* self.running
    spc,                \* SpecSession: position of the thread executing run()
    irc,                \* self.irc: the socket and the lines connect sent on it
    conn_caller,        \* who called connect_to_twitch: "run" or "reconnect"
    conn_ret,           \* what connect_to_twitch returns
    response,           \* local 'response' of the read loop
    raised,             \* the exception the inner try block raised last
    raised_by,          \* the call that raised it: "recv" or "send"
    attempts,           \* history: connect attempts since _reconnect was entered
    pongs,              \* history: PONG lines sent since the last read
    parsed,             \* history: the last read was given to _parse_message
    worker,             \* the !elo thread: "idle" or "io" (requests, file)
    io_cmd,             \* the command whose handler run() is executing
    interrupted         \* history: KeyboardInterrupt was raised

botvars == <<last_elo_time, pending_elo_thread, rpc, current_time, seen_stamp,
             last_outcome, r_hist, tpc, tstats, tdelta, tts, thist, treply,
             tdispatch, tmpc, next_reset, timers, tm_entry>>
storevars == <<store_op, store_prev, store_pre, store_arg, store_ret>>
matchvars == <<match, outcome>>
fetchvars == <<fetch_presp, fetch_mresp, fetch_op, fetch_counts, fetch_stats>>
sessvars == <<running, spc, irc, conn_caller, conn_ret, response, raised,
              raised_by, attempts, pongs, parsed, worker, io_cmd, interrupted>>
vars == <<now, elo_file, botvars, storevars, matchvars, fetchvars, sessvars>>

\* ------------------------------------------------------------ the history
\* One element of the JSON array: {"elo": ..., "timestamp": ...}.
Rec(e, t) == [elo |-> e, timestamp |-> t]

\* The file: absent, holding a JSON array, or holding bytes json.load rejects
\* (just truncated by open(..., 'w'), or overwritten by two writers).
Absent == [kind |-> "absent", data |-> <<>>]
Undecodable == [kind |-> "undecodable", data |-> <<>>]
FileJson(h) == [kind |-> "json", data |-> h]

\* datetime.fromisoformat(ts).date() / datetime.now(TIMEZONE).date()
Date(t) == t \div DayLen

\* The list comprehension of get_daily_elo_change: entries dated today.
DailyRecords_all(history, today) == history
DailyRecords(history, today) ==
    SelectSeq(history, LAMBDA e : Date(e.timestamp) = today)

\* while daily_records and daily_records[0]['elo'] == 0: daily_records.pop(0)
DropLeadingZeros_none(s) == s
RECURSIVE DropLeadingZeros(_)
DropLeadingZeros(s) ==
    IF Len(s) > 0 /\ s[1].elo = 0 THEN DropLeadingZeros(Tail(s)) ELSE s

\* get_daily_elo_change, given what the file holds and today's date.
get_daily_elo_change(f, today) ==
    IF f.kind = "absent" THEN 0
    ELSE IF f.kind = "undecodable" THEN 0
    ELSE IF Len(f.data) = 0 THEN 0
    ELSE LET daily_records == DropLeadingZeros(DailyRecords(f.data, today))
         IN  IF Len(daily_records) < 2 THEN 0
             ELSE daily_records[Len(daily_records)].elo - daily_records[1].elo

\* new_entry of reset_daily_stats: the last rating, stamped now.
ResetEntry_first(history, t) ==
    Rec(IF Len(history) > 0 THEN history[1].elo ELSE 0, t)
ResetEntry(history, t) ==
    Rec(IF Len(history) > 0 THEN history[Len(history)].elo ELSE 0, t)

\* The list comprehension of clean_old_elo_records: entries dated >= today.
KeepFromToday(history, today) ==
    SelectSeq(history, LAMBDA e : Date(e.timestamp) >= today)

\* save_elo_record run start to end on file f at instant t.
save_elo_record_overwrite(f, elo, t) ==
    IF f.kind = "undecodable" THEN f ELSE FileJson(<<Rec(elo, t)>>)
save_elo_record(f, elo, t) ==
    IF f.kind = "undecodable" THEN f
    ELSE FileJson(Append(IF f.kind = "absent" THEN <<>> ELSE f.data, Rec(elo, t)))

\* reset_daily_stats run start to end on file f at instant t.
reset_daily_stats_append(f, t) ==
    IF f.kind # "json" THEN f ELSE FileJson(Append(f.data, ResetEntry(f.data, t)))
reset_daily_stats(f, t) ==
    IF f.kind # "json" THEN f ELSE FileJson(<<ResetEntry(f.data, t)>>)

\* clean_old_elo_records run start to end on file f at instant t.
clean_old_elo_records(f, t) ==
    IF f.kind # "json" THEN f ELSE FileJson(KeepFromToday(f.data, Date(t)))

\* What the file holds after a writer that opened it with 'w' (truncating it)
\* closes it. The bytes go out at close, from offset 0: onto a file nobody
\* rewrote since the truncation they are the whole content; onto a file that
\* another writer filled in the meantime they leave that writer's tail behind
\* whenever they are shorter.
DumpOutcomes(f, content) ==
    IF f.kind # "json" THEN {FileJson(content)}
    ELSE IF Len(content) > Len(f.data) THEN {FileJson(content)}
    ELSE IF Len(content) < Len(f.data) THEN {Undecodable}
    ELSE {FileJson(content), Undecodable}

\* ------------------------------------------------------- match classifier
Players == {"me", "other"}
PlayerId == "me"

\* teams.items() in order, each faction with the player ids of its roster.
Teams(r1, r2) == <<[faction |-> "faction1", players |-> r1],
                   [faction |-> "faction2", players |-> r2]>>

\* status: "finished", another status, or no status at all;
\* winner: a faction name, or "absent" (no results, None or empty string).
Matches ==
    {[status |-> s, teams |-> Teams(r1, r2), winner |-> w] :
        s \in {"finished", "ongoing", "none"},
        r1 \in SUBSET Players, r2 \in SUBSET Players,
        w \in {"absent", "faction1", "faction2", "faction3"}}

\* The two nested loops: the first faction whose roster holds player_id.
RECURSIVE FindPlayerTeam(_, _)
FindPlayerTeam(teams, player_id) ==
    IF Len(teams) = 0 THEN "none"
    ELSE IF player_id \in teams[1].players THEN teams[1].faction
    ELSE FindPlayerTeam(Tail(teams), player_id)

analyze_match_nostatus(m, player_id) ==
    LET player_team == FindPlayerTeam(m.teams, player_id)
    IN  IF player_team = "none" THEN "unknown"
        ELSE IF m.winner = "absent" THEN "unknown"
        ELSE IF player_team = m.winner THEN "win" ELSE "loss"
analyze_match(m, player_id) ==
    IF m.status # "finished" THEN "unknown"
    ELSE LET player_team == FindPlayerTeam(m.teams, player_id)
         IN  IF player_team = "none" THEN "unknown"
             ELSE IF m.winner = "absent" THEN "unknown"
             ELSE IF player_team = m.winner THEN "win" ELSE "loss"

\* ------------------------------------------------------ FACEIT API client
\* One match of each kind the classifier tells apart: won, lost, not
\* finished, player in no roster, no winner recorded.
SampleMatches ==
    {[status |-> "finished", teams |-> Teams({"me"}, {"other"}),
      winner |-> "faction1"],
     [status |-> "finished", teams |-> Teams({"me"}, {"other"}),
      winner |-> "faction2"],
     [status |-> "ongoing", teams |-> Teams({"me"}, {"other"}),
      winner |-> "faction1"],
     [status |-> "finished", teams |-> Teams({"other"}, {}),
      winner |-> "faction1"],
     [status |-> "finished", teams |-> Teams({"me"}, {"other"}),
      winner |-> "absent"]}

ItemLists == UNION {[1..n -> SampleMatches] : n \in 0..MaxItems}

\* What requests.get(matches_url, ...) and response.json() do:
\*   "timeout", "connection"  requests.get raises a RequestException
\*   "status"                 status_code != 200
\*   "undecodable"            response.json() raises ValueError
\*   "noitems"                a JSON object without 'items'
\*   "ok"                     a JSON object with the list 'items'
MatchResponses ==
    {[outcome |-> k, items |-> <<>>] :
        k \in {"timeout", "connection", "status", "undecodable", "noitems"}}
    \cup {[outcome |-> "ok", items |-> l] : l \in ItemLists}

\* What requests.get(player_url, ...) and response.json() do: as above, and
\*   "noplayer"  a JSON object without 'player_id'
\*   "badgames"  'games' is not an object: .get on it raises AttributeError
\*   "ok"        player_id and games.cs2.faceit_elo (0 when the key is missing)
PlayerResponses ==
    {[outcome |-> k, elo |-> 0] :
        k \in {"timeout", "connection", "status", "undecodable", "noplayer",
                "badgames"}}
    \cup {[outcome |-> "ok", elo |-> e] : e \in Elos}

\* A call ends by returning a value or by raising.
Counts(exc, w, l) == [raised |-> exc, wins |-> w, losses |-> l]
Stats(exc, e, w, l) == [raised |-> exc, Elo |-> e, Win |-> w, Lose |-> l]

\* The for loop of _get_daily_matches: <<wins, losses>>.
RECURSIVE CountMatches_nonwin(_, _)
CountMatches_nonwin(matches, player_id) ==
    IF Len(matches) = 0 THEN <<0, 0>>
    ELSE LET rest == CountMatches_nonwin(Tail(matches), player_id)
             result == analyze_match(Head(matches), player_id)
         IN  IF result = "win" THEN <<rest[1] + 1, rest[2]>>
             ELSE <<rest[1], rest[2] + 1>>
RECURSIVE CountMatches(_, _)
CountMatches(matches, player_id) ==
    IF Len(matches) = 0 THEN <<0, 0>>
    ELSE LET rest == CountMatches(Tail(matches), player_id)
             result == analyze_match(Head(matches), player_id)
         IN  IF result = "win" THEN <<rest[1] + 1, rest[2]>>
             ELSE IF result = "loss" THEN <<rest[1], rest[2] + 1>>
             ELSE rest

\* The try block of _get_daily_matches.
DailyMatchesBody(resp, player_id) ==
    IF resp.outcome \in {"timeout", "connection"}
    THEN Counts("RequestException", 0, 0)
    ELSE IF resp.outcome = "status" THEN Counts("none", 0, 0)
    ELSE IF resp.outcome = "undecodable" THEN Counts("ValueError", 0, 0)
    ELSE LET c == CountMatches(resp.items, player_id)
         IN  Counts("none", c[1], c[2])

\* _get_daily_matches: the try block under "except Exception: return 0, 0".
get_daily_matches(resp, player_id) ==
    LET body == DailyMatchesBody(resp, player_id)
    IN  IF body.raised # "none" THEN Counts("none", 0, 0) ELSE body

\* _get_empty_stats
get_empty_stats == Stats("none", 0, 0, 0)

\* The try block of get_faceit_stats.
FaceitStatsBody(presp, mresp) ==
    IF presp.outcome \in {"timeout", "connection"}
    THEN Stats("RequestException", 0, 0, 0)
    ELSE IF presp.outcome = "status" THEN get_empty_stats
    ELSE IF presp.outcome = "undecodable" THEN Stats("ValueError", 0, 0, 0)
    ELSE IF presp.outcome = "noplayer" THEN get_empty_stats
    ELSE IF presp.outcome = "badgames" THEN Stats("AttributeError", 0, 0, 0)
    ELSE LET m == get_daily_matches(mresp, PlayerId)
         IN  IF m.raised # "none" THEN Stats(m.raised, 0, 0, 0)
             ELSE Stats("none", presp.elo, m.wins, m.losses)

\* get_faceit_stats: the try block under "except requests.RequestException"
\* and "except Exception", both returning _get_empty_stats().
get_faceit_stats_uncaught(presp, mresp) == FaceitStatsBody(presp, mresp)
get_faceit_stats(presp, mresp) ==
    LET body == FaceitStatsBody(presp, mresp)
    IN  IF body.raised = "RequestException" THEN get_empty_stats
        ELSE IF body.raised # "none" THEN get_empty_stats
        ELSE body

\* ------------------------------------------------------- the IRC session
\* The lines connect_to_twitch sends, in order.
AuthLines_nojoin == <<"PASS", "NICK">>
AuthLines == <<"PASS", "NICK", "JOIN">>

\* self.irc: "unconnected" (socket() made it, connect() did not succeed),
\* "open", or "closed"; lines: what connect_to_twitch sent on it.
Socket(c, l) == [conn |-> c, lines |-> l]

\* The commands handle_command tells apart, a message that is none of them,
\* and a PRIVMSG line _parse_message cannot split (it logs and returns).
Commands == {"!elo", "!checkelo", "!debug", "!testapi", "other", "unparsable"}

\* The commands whose handler calls requests.get (and, for !checkelo, reads
\* the history file) before it returns.
SyncCommands_all == {"!elo", "!checkelo", "!debug", "!testapi"}
SyncCommands == {"!checkelo", "!debug", "!testapi"}

\* What recv(2048).decode() returns: nothing, or data that may start with
\* PING and may contain PRIVMSG (then with a message text).
EmptyRead == [kind |-> "empty", ping |-> FALSE, privmsg |-> FALSE, cmd |-> "other"]
DataReads ==
    {[kind |-> "data", ping |-> pg, privmsg |-> FALSE, cmd |-> "other"] :
        pg \in BOOLEAN}
    \cup {[kind |-> "data", ping |-> pg, privmsg |-> TRUE, cmd |-> c] :
              pg \in BOOLEAN, c \in Commands}

\* The exceptions recv can raise: socket.timeout, ConnectionResetError,
\* ConnectionAbortedError, or another OSError (not connected, bad descriptor,
\* broken pipe, unreachable host).
RecvErrors == {"timeout", "reset", "abort", "oserror"}

\* What recv does on the socket. Only a connected one returns; a closed one
\* raises OSError at once, and so does one whose connect() failed, unless a
\* connect() that timed out is still under way and recv times out as well.
RecvOutcomes(sock) ==
    IF sock.conn = "open" THEN DataReads \cup {EmptyRead} ELSE {}
RecvRaises(sock) ==
    IF sock.conn = "open" THEN RecvErrors
    ELSE IF sock.conn = "unconnected" THEN {"oserror", "timeout"}
    ELSE {"oserror"}

\* The exceptions irc.send can raise on a connected socket.
SendErrors == {"reset", "oserror"}

\* response.startswith('PING')
StartsWithPing_afterprivmsg(r) == r.ping /\ ~r.privmsg
StartsWithPing(r) == r.ping

\* The except clause that takes an exception raised in the inner try block
\* of run(): line 697, 701 or 704; "main" stands for main()'s handlers.
Catcher_socketonly(exc) ==
    IF exc \in {"timeout", "reset", "abort"} THEN "inner_socket" ELSE "main"
Catcher(exc) ==
    IF exc \in {"timeout", "reset", "abort"} THEN "inner_socket"
    ELSE IF exc = "RequestException" THEN "inner_api"
    ELSE "inner_any"

\* ------------------------------------------------------------- quiescence
\* The values the variables of the other specifications keep.
BotIdle ==
    /\ last_elo_time = 0
    /\ pending_elo_thread = 0
    /\ rpc = "connect"
    /\ current_time = 0
    /\ seen_stamp = 0
    /\ last_outcome = "none"
    /\ r_hist = <<>>
    /\ tpc = [i \in Threads |-> "idle"]
    /\ tstats = [i \in Threads |-> 0]
    /\ tdelta = [i \in Threads |-> 0]
    /\ tts = [i \in Threads |-> 0]
    /\ thist = [i \in Threads |-> <<>>]
    /\ treply = [i \in Threads |-> "none"]
    /\ tdispatch = [i \in Threads |-> 0]
    /\ tmpc = "armed"
    /\ timers = 1
    /\ tm_entry = Rec(0, 0)

StoreIdle ==
    /\ store_op = "none"
    /\ store_prev = "none"
    /\ store_pre = Absent
    /\ store_arg = 0
    /\ store_ret = 0

MatchIdle ==
    /\ match = [status |-> "none", teams |-> Teams({}, {}), winner |-> "absent"]
    /\ outcome = "none"

SessIdle ==
    /\ running = FALSE
    /\ spc = "main"
    /\ irc = Socket("unconnected", <<>>)
    /\ conn_caller = "run"
    /\ conn_ret = "none"
    /\ response = EmptyRead
    /\ raised = "none"
    /\ raised_by = "none"
    /\ attempts = 0
    /\ pongs = 0
    /\ parsed = FALSE
    /\ worker = "idle"
    /\ io_cmd = "none"
    /\ interrupted = FALSE

FetchIdle ==
    /\ fetch_presp = [outcome |-> "status", elo |-> 0]
    /\ fetch_mresp = [outcome |-> "status", items |-> <<>>]
    /\ fetch_op = "none"
    /\ fetch_counts = Counts("none", 0, 0)
    /\ fetch_stats = get_empty_stats

\* ===================================================================== Spec
\* The running bot. __init__ has run: the file exists (created with the seed,
\* or left by an earlier run), the Timer is armed, no !elo thread exists, and
\* main() has called run().
\* run() is called at 00:00 of the model's day 1.
Start == DayLen
MaxTime == Start + Horizon

\* A file an earlier run of the bot left: yesterday's last rating, one the
\* player has moved away from since.
PriorHistories == {<<Rec(MaxElo + 1, DayLen - 1)>>}

\* schedule_daily_reset: today 04:00, or tomorrow 04:00 once that has passed.
NextReset_today(t) == Date(t) * DayLen + ResetHour
NextReset(t) ==
    LET next_reset_today == Date(t) * DayLen + ResetHour
    IN  IF t >= next_reset_today THEN next_reset_today + DayLen
        ELSE next_reset_today

\* threading.Thread.is_alive(): started and its target has not returned.
is_alive_started(i) == tpc[i] # "idle"
is_alive(i) == tpc[i] \notin {"idle", "done"}

\* current_time - self.last_elo_time < self.elo_cooldown
CooldownActive_never(ct, last) == FALSE
CooldownActive(ct, last) == ct - last < elo_cooldown

\* hasattr(self, 'pending_elo_thread') and self.pending_elo_thread
\* and self.pending_elo_thread.is_alive()
PendingAlive_never == FALSE
PendingAlive == pending_elo_thread # 0 /\ is_alive(pending_elo_thread)

\* if stats['Elo'] > 0: self.save_elo_record(stats['Elo'])
ShouldSave_always(elo) == TRUE
ShouldSave(elo) == elo > 0

\* Threads started so far; the next one takes the next id.
Spawned == {i \in Threads : tpc[i] # "idle"}
NSpawned == Cardinality(Spawned)

Init ==
    /\ now = Start
    /\ elo_file \in {FileJson(<<Rec(0, Start)>>)}
                    \cup {FileJson(h) : h \in PriorHistories}
    /\ BotIdle
    /\ next_reset = NextReset(Start)
    /\ StoreIdle
    /\ MatchIdle
    /\ FetchIdle
    /\ SessIdle

runvars == <<rpc, current_time, seen_stamp, last_outcome, r_hist>>
gatevars == <<last_elo_time, pending_elo_thread>>
threadvars == <<tpc, tstats, tdelta, tts, thist, treply, tdispatch>>
timervars == <<tmpc, next_reset, timers, tm_entry>>
idlevars == <<storevars, matchvars, fetchvars, sessvars>>

\* The clock is read by time.time() and datetime.now(): 'now' is the value
\* the latest read returned, and a read returns that value or a later one
\* (time passes between the steps, also through every time.sleep).
Clock == now..MaxTime

\* ------------------------------------------------------- the run() thread
\* run(): connect_to_twitch() returned True. A failed attempt sleeps and
\* retries with nothing changed, which is a step that leaves the state as is.
Connect ==
    /\ rpc = "connect"
    /\ rpc' = "clean"
    /\ UNCHANGED <<now, elo_file, current_time, seen_stamp, last_outcome,
                   r_hist, gatevars, threadvars, timervars, idlevars>>

\* clean_old_elo_records: exists(), open('r'), json.load, the filter.
CleanRead ==
    /\ rpc = "clean"
    /\ IF elo_file.kind = "json"
       THEN /\ \E t \in Clock :
                  /\ now' = t
                  /\ r_hist' = KeepFromToday(elo_file.data, Date(t))
            /\ rpc' = "clean_open"
       ELSE /\ now' = now
            /\ r_hist' = r_hist
            /\ rpc' = "recv"
    /\ UNCHANGED <<elo_file, current_time, seen_stamp, last_outcome,
                   gatevars, threadvars, timervars, idlevars>>

\* clean_old_elo_records: open('w') truncates the file.
CleanOpen ==
    /\ rpc = "clean_open"
    /\ elo_file' = Undecodable
    /\ rpc' = "clean_dump"
    /\ UNCHANGED <<now, current_time, seen_stamp, last_outcome, r_hist,
                   gatevars, threadvars, timervars, idlevars>>

\* clean_old_elo_records: json.dump and close; run() enters the read loop.
CleanDump ==
    /\ rpc = "clean_dump"
    /\ \E out \in DumpOutcomes(elo_file, r_hist) : elo_file' = out
    /\ r_hist' = <<>>
    /\ rpc' = "recv"
    /\ UNCHANGED <<now, current_time, seen_stamp, last_outcome,
                   gatevars, threadvars, timervars, idlevars>>

\* recv() returned a PRIVMSG with "!elo": _handle_elo_command reads the clock
\* and makes the cooldown test; a command inside the cooldown is dropped.
RecvElo ==
    /\ rpc = "recv"
    /\ NSpawned < MaxThreads
    /\ \E t \in Clock :
          /\ now' = t
          /\ current_time' = t
          /\ IF CooldownActive(t, last_elo_time)
             THEN /\ rpc' = "recv"
                  /\ last_outcome' = "cooldown"
             ELSE /\ rpc' = "elo_alive"
                  /\ last_outcome' = "none"
    /\ seen_stamp' = last_elo_time
    /\ UNCHANGED <<elo_file, r_hist, gatevars, threadvars, timervars,
                   idlevars>>

\* _handle_elo_command: the is_alive test, then Thread(...).start().
EloAliveGate ==
    /\ rpc = "elo_alive"
    /\ rpc' = "recv"
    /\ current_time' = 0
    /\ seen_stamp' = 0
    /\ IF PendingAlive
       THEN /\ last_outcome' = "inflight"
            /\ UNCHANGED <<pending_elo_thread, tpc, tdispatch>>
       ELSE LET i == NSpawned + 1
            IN  /\ last_outcome' = "spawned"
                /\ pending_elo_thread' = i
                /\ tpc' = [tpc EXCEPT ![i] = "fetch"]
                /\ tdispatch' = [tdispatch EXCEPT ![i] = current_time]
    /\ UNCHANGED <<now, elo_file, r_hist, last_elo_time, tstats, tdelta, tts,
                   thist, treply, timervars, idlevars>>

\* --------------------------------------------- an !elo thread: _process_elo
\* stats = self.get_faceit_stats(...) has returned: any rating, 0 when the
\* fetch failed (the thread sits at "fetch" while the requests are under way).
\* Then daily_change = self.get_daily_elo_change(), "if stats['Elo'] > 0" and,
\* inside save_elo_record, the timestamp.
TaskFetchDelta(i) ==
    /\ tpc[i] = "fetch"
    /\ \E t \in Clock, elo \in Elos :
          /\ now' = t
          /\ tdelta' = [tdelta EXCEPT ![i] =
                           get_daily_elo_change(elo_file, Date(t))]
          /\ tstats' = [tstats EXCEPT ![i] = elo]
          /\ IF ShouldSave(elo)
             THEN /\ tts' = [tts EXCEPT ![i] = t]
                  /\ tpc' = [tpc EXCEPT ![i] = "save_read"]
             ELSE /\ tts' = tts
                  /\ tpc' = [tpc EXCEPT ![i] = "send"]
    /\ UNCHANGED <<elo_file, runvars, gatevars, thist, treply,
                   tdispatch, timervars, idlevars>>

\* save_elo_record: exists(), open('r'), json.load, history.append(data).
\* A file json.load rejects raises, and the except clause ends the save.
TaskSaveRead(i) ==
    /\ tpc[i] = "save_read"
    /\ IF elo_file.kind = "undecodable"
       THEN /\ thist' = thist
            /\ tpc' = [tpc EXCEPT ![i] = "send"]
       ELSE /\ thist' = [thist EXCEPT ![i] =
                           Append(IF elo_file.kind = "absent" THEN <<>>
                                  ELSE elo_file.data,
                                  Rec(tstats[i], tts[i]))]
            /\ tpc' = [tpc EXCEPT ![i] = "save_open"]
    /\ UNCHANGED <<now, elo_file, runvars, gatevars, tstats, tdelta, tts,
                   treply, tdispatch, timervars, idlevars>>

\* save_elo_record: open('w') truncates the file.
TaskSaveOpen(i) ==
    /\ tpc[i] = "save_open"
    /\ elo_file' = Undecodable
    /\ tpc' = [tpc EXCEPT ![i] = "save_dump"]
    /\ UNCHANGED <<now, runvars, gatevars, tstats, tdelta, tts, thist,
                   treply, tdispatch, timervars, idlevars>>

\* save_elo_record: json.dump and close.
TaskSaveDump(i) ==
    /\ tpc[i] = "save_dump"
    /\ \E out \in DumpOutcomes(elo_file, thist[i]) : elo_file' = out
    /\ thist' = [thist EXCEPT ![i] = <<>>]
    /\ tpc' = [tpc EXCEPT ![i] = "send"]
    /\ UNCHANGED <<now, runvars, gatevars, tstats, tdelta, tts, treply,
                   tdispatch, timervars, idlevars>>

\* self.send_message(response): the line (rating, counts, daily change) goes
\* out, or the send raises and send_message logs it.
TaskSend(i) ==
    /\ tpc[i] = "send"
    /\ \E r \in {"sent", "failed"} : treply' = [treply EXCEPT ![i] = r]
    /\ tpc' = [tpc EXCEPT ![i] = "stamp"]
    /\ tstats' = [tstats EXCEPT ![i] = 0]
    /\ tdelta' = [tdelta EXCEPT ![i] = 0]
    /\ tts' = [tts EXCEPT ![i] = 0]
    /\ UNCHANGED <<now, elo_file, runvars, gatevars, thist, tdispatch,
                   timervars, idlevars>>

\* self.last_elo_time = time.time(); the target returns, the thread ends.
TaskStamp(i) ==
    /\ tpc[i] = "stamp"
    /\ \E t \in Clock :
          /\ now' = t
          /\ last_elo_time' = t
    /\ tpc' = [tpc EXCEPT ![i] = "done"]
    /\ treply' = [treply EXCEPT ![i] = "none"]
    /\ UNCHANGED <<elo_file, runvars, pending_elo_thread, tstats, tdelta,
                   tts, thist, tdispatch, timervars, idlevars>>

\* ------------------------------------------------------- the Timer thread
\* _daily_reset_callback fires; reset_daily_stats: exists(), open('r'),
\* json.load, new_entry. When the read fails the reset ends there and
\* schedule_daily_reset arms the next Timer.
ResetRead ==
    /\ tmpc = "armed"
    /\ \E t \in Clock :
          /\ t >= next_reset
          /\ now' = t
          /\ IF elo_file.kind = "json"
             THEN /\ tm_entry' = ResetEntry(elo_file.data, t)
                  /\ tmpc' = "reset_open"
                  /\ next_reset' = next_reset
                  /\ timers' = timers - 1
             ELSE /\ tm_entry' = tm_entry
                  /\ tmpc' = "armed"
                  /\ next_reset' = NextReset(t)
                  /\ timers' = timers
    /\ UNCHANGED <<elo_file, runvars, gatevars, threadvars, idlevars>>

\* reset_daily_stats: open('w') truncates the file.
ResetOpen ==
    /\ tmpc = "reset_open"
    /\ elo_file' = Undecodable
    /\ tmpc' = "reset_dump"
    /\ UNCHANGED <<now, runvars, gatevars, threadvars, next_reset, timers,
                   tm_entry, idlevars>>

\* reset_daily_stats: json.dump([new_entry]) and close; then
\* schedule_daily_reset arms the next Timer, for an instant later than the
\* clock value it reads (so every later read of the clock that matters to the
\* Timer, its firing, comes after it).
ResetDump ==
    /\ tmpc = "reset_dump"
    /\ \E out \in DumpOutcomes(elo_file, <<tm_entry>>) : elo_file' = out
    /\ tm_entry' = Rec(0, 0)
    /\ tmpc' = "armed"
    /\ \E t \in Clock : next_reset' = NextReset(t)
    /\ timers' = timers + 1
    /\ UNCHANGED <<now, runvars, gatevars, threadvars, idlevars>>

Next ==
    \/ Connect
    \/ CleanRead
    \/ CleanOpen
    \/ CleanDump
    \/ RecvElo
    \/ EloAliveGate
    \/ \E i \in Threads : TaskFetchDelta(i)
    \/ \E i \in Threads : TaskSaveRead(i)
    \/ \E i \in Threads : TaskSaveOpen(i)
    \/ \E i \in Threads : TaskSaveDump(i)
    \/ \E i \in Threads : TaskSend(i)
    \/ \E i \in Threads : TaskStamp(i)
    \/ ResetRead
    \/ ResetOpen
    \/ ResetDump

Spec == Init /\ [][Next]_vars

\* The steps of one !elo thread. A started thread is scheduled until its
\* target returns, and each of its steps ends by itself: the requests carry
\* timeouts (lines 281, 325), the socket too (line 151), the file operations
\* and send_message catch what they raise.
ThreadNext(i) ==
    \/ TaskFetchDelta(i)
    \/ TaskSaveRead(i)
    \/ TaskSaveOpen(i)
    \/ TaskSaveDump(i)
    \/ TaskSend(i)
    \/ TaskStamp(i)

SpecLive == Spec /\ \A i \in Threads : WF_vars(ThreadNext(i))

\* ================================================================ SpecStore
\* The store operations applied one after another, on any file.
StoreStart == DayLen - 1
StoreEnd == DayLen + 1

InitStore ==
    /\ now = StoreStart
    /\ elo_file \in {Absent, Undecodable, FileJson(<<>>)}
    /\ BotIdle
    /\ next_reset = 0
    /\ StoreIdle
    /\ MatchIdle
    /\ FetchIdle
    /\ SessIdle

StoreDone(op, arg, ret) ==
    /\ store_op' = op
    /\ store_prev' = store_op
    /\ store_pre' = elo_file
    /\ store_arg' = arg
    /\ store_ret' = ret
    /\ UNCHANGED <<botvars, matchvars, fetchvars, sessvars>>

StoreAppend ==
    /\ Len(elo_file.data) < StoreMaxLen
    /\ \E r \in Ratings :
          /\ elo_file' = save_elo_record(elo_file, r, now)
          /\ StoreDone("append", r, 0)
    /\ UNCHANGED now

StoreReset ==
    /\ elo_file' = reset_daily_stats(elo_file, now)
    /\ StoreDone("reset", 0, 0)
    /\ UNCHANGED now

StoreClean ==
    /\ elo_file' = clean_old_elo_records(elo_file, now)
    /\ StoreDone("clean", 0, 0)
    /\ UNCHANGED now

StoreDelta ==
    /\ StoreDone("delta", 0, get_daily_elo_change(elo_file, Date(now)))
    /\ UNCHANGED <<now, elo_file>>

StoreTick ==
    /\ now < StoreEnd
    /\ now' = now + 1
    /\ StoreDone("tick", 0, 0)
    /\ UNCHANGED elo_file

NextStore == StoreAppend \/ StoreReset \/ StoreClean \/ StoreDelta \/ StoreTick

SpecStore == InitStore /\ [][NextStore]_vars

\* ================================================================ SpecMatch
InitMatch ==
    /\ now = 0
    /\ elo_file = Absent
    /\ BotIdle
    /\ next_reset = 0
    /\ StoreIdle
    /\ match \in Matches
    /\ outcome = "none"
    /\ FetchIdle
    /\ SessIdle

Analyze ==
    /\ outcome = "none"
    /\ outcome' = analyze_match(match, PlayerId)
    /\ UNCHANGED <<now, elo_file, botvars, storevars, match, fetchvars,
                   sessvars>>

NextMatch == Analyze

SpecMatch == InitMatch /\ [][NextMatch]_vars

\* ================================================================ SpecFetch
\* One call of _get_daily_matches or of get_faceit_stats, whatever the two
\* FACEIT requests do.
InitFetch ==
    /\ now = 0
    /\ elo_file = Absent
    /\ BotIdle
    /\ next_reset = 0
    /\ StoreIdle
    /\ MatchIdle
    /\ fetch_presp \in PlayerResponses
    /\ fetch_mresp \in MatchResponses
    /\ fetch_op = "none"
    /\ fetch_counts = Counts("none", 0, 0)
    /\ fetch_stats = get_empty_stats
    /\ SessIdle

CallGetDailyMatches ==
    /\ fetch_op = "none"
    /\ fetch_op' = "_get_daily_matches"
    /\ fetch_counts' = get_daily_matches(fetch_mresp, PlayerId)
    /\ UNCHANGED <<now, elo_file, botvars, storevars, matchvars, fetch_presp,
                   fetch_mresp, fetch_stats, sessvars>>

CallGetFaceitStats ==
    /\ fetch_op = "none"
    /\ fetch_op' = "get_faceit_stats"
    /\ fetch_stats' = get_faceit_stats(fetch_presp, fetch_mresp)
    /\ UNCHANGED <<now, elo_file, botvars, storevars, matchvars, fetch_presp,
                   fetch_mresp, fetch_counts, sessvars>>

NextFetch == CallGetDailyMatches \/ CallGetFaceitStats

SpecFetch == InitFetch /\ [][NextFetch]_vars

\* ============================================================== SpecSession
\* run() and the socket. is_stream_live() returns True always, so the inner
\* loop is left only by an exception no inner clause catches. The !elo thread
\* is reduced to being busy or not, and clean_old_elo_records to one step:
\* Spec has both in full.
InitSession ==
    /\ now = 0
    /\ elo_file = Absent
    /\ BotIdle
    /\ next_reset = 0
    /\ StoreIdle
    /\ MatchIdle
    /\ FetchIdle
    /\ SessIdle

othervars == <<now, elo_file, botvars, storevars, matchvars, fetchvars>>

\* main() calls bot.run(): self.running = True.
RunStart ==
    /\ spc = "main"
    /\ running' = TRUE
    /\ spc' = "outer"
    /\ UNCHANGED <<othervars, irc, conn_caller, conn_ret, response, raised,
                   raised_by, attempts, pongs, parsed, worker, io_cmd,
                   interrupted>>

\* while self.running: ... if not self.connect_to_twitch()
CallConnect ==
    /\ spc = "outer"
    /\ running
    /\ spc' = "conn_open"
    /\ conn_caller' = "run"
    /\ attempts' = 0
    /\ UNCHANGED <<othervars, running, irc, conn_ret, response, raised,
                   raised_by, pongs, parsed, worker, io_cmd, interrupted>>

\* connect_to_twitch: socket.socket(), settimeout, connect; an exception is
\* caught at line 162 and the function returns False.
ConnOpen ==
    /\ spc = "conn_open"
    /\ attempts' = attempts + 1
    /\ \E ok \in BOOLEAN :
          IF ok
          THEN /\ irc' = Socket("open", <<>>)
               /\ spc' = "conn_send"
               /\ conn_ret' = conn_ret
          ELSE /\ irc' = Socket("unconnected", <<>>)
               /\ spc' = "conn_done"
               /\ conn_ret' = "false"
    /\ UNCHANGED <<othervars, running, conn_caller, response, raised,
                   raised_by, pongs, parsed, worker, io_cmd, interrupted>>

\* connect_to_twitch: the next irc.send; after the last one, return True; an
\* exception is caught at line 162 and the function returns False.
ConnSend ==
    /\ spc = "conn_send"
    /\ \E ok \in BOOLEAN :
          IF ok
          THEN LET k == Len(irc.lines) + 1
               IN  /\ irc' = Socket(irc.conn, Append(irc.lines, AuthLines[k]))
                   /\ IF k = Len(AuthLines)
                      THEN spc' = "conn_done" /\ conn_ret' = "true"
                      ELSE spc' = "conn_send" /\ conn_ret' = conn_ret
          ELSE /\ irc' = irc
               /\ spc' = "conn_done"
               /\ conn_ret' = "false"
    /\ UNCHANGED <<othervars, running, conn_caller, response, raised,
                   raised_by, attempts, pongs, parsed, worker, io_cmd,
                   interrupted>>

\* connect_to_twitch has returned. In run(): False sleeps and continues the
\* outer loop, True goes on to clean_old_elo_records. In _reconnect the value
\* is dropped and _reconnect returns.
ConnReturn ==
    /\ spc = "conn_done"
    /\ spc' = IF conn_caller = "reconnect" THEN "recon_done"
              ELSE IF conn_ret = "true" THEN "clean"
              ELSE "outer"
    /\ conn_ret' = "none"
    /\ UNCHANGED <<othervars, running, irc, conn_caller, response, raised,
                   raised_by, attempts, pongs, parsed, worker, io_cmd,
                   interrupted>>

\* self.clean_old_elo_records(), which catches its exceptions.
SessionClean ==
    /\ spc = "clean"
    /\ spc' = "recv"
    /\ UNCHANGED <<othervars, running, irc, conn_caller, conn_ret, response,
                   raised, raised_by, attempts, pongs, parsed, worker, io_cmd,
                   interrupted>>

\* response = self.irc.recv(2048).decode(...) returns.
RecvData ==
    /\ spc = "recv"
    /\ \E r \in RecvOutcomes(irc) : response' = r
    /\ spc' = "got"
    /\ raised' = "none"
    /\ raised_by' = "none"
    /\ pongs' = 0
    /\ parsed' = FALSE
    /\ UNCHANGED <<othervars, running, irc, conn_caller, conn_ret, attempts,
                   worker, io_cmd, interrupted>>

\* self.irc.recv(2048) raises.
RecvRaise ==
    /\ spc = "recv"
    /\ \E e \in RecvRaises(irc) : raised' = e
    /\ raised_by' = "recv"
    /\ spc' = "except"
    /\ pongs' = 0
    /\ parsed' = FALSE
    /\ UNCHANGED <<othervars, running, irc, conn_caller, conn_ret, response,
                   attempts, worker, io_cmd, interrupted>>

\* if not response: self._reconnect(); continue
HandleEmpty ==
    /\ spc = "got"
    /\ response.kind = "empty"
    /\ spc' = "recon_close"
    /\ UNCHANGED <<othervars, running, irc, conn_caller, conn_ret, response,
                   raised, raised_by, attempts, pongs, parsed, worker, io_cmd,
                   interrupted>>

\* if response.startswith('PING'): self.irc.send("PONG\r\n"); continue
HandlePing ==
    /\ spc = "got"
    /\ response.kind = "data"
    /\ StartsWithPing(response)
    /\ \E o \in {"ok"} \cup SendErrors :
          IF o = "ok"
          THEN /\ pongs' = pongs + 1
               /\ spc' = "recv"
               /\ UNCHANGED <<raised, raised_by>>
          ELSE /\ pongs' = pongs
               /\ spc' = "except"
               /\ raised' = o
               /\ raised_by' = "send"
    /\ UNCHANGED <<othervars, running, irc, conn_caller, conn_ret, response,
                   attempts, parsed, worker, io_cmd, interrupted>>

\* if "PRIVMSG" in response: self._parse_message(response), which calls
\* handle_command. !elo passes the two gates of _handle_elo_command and starts
\* the thread, or is dropped; !checkelo, !debug and !testapi call their
\* handler, which issues its requests before it returns; anything else, and
\* a line _parse_message cannot split, comes back at once.
HandlePrivmsg ==
    /\ spc = "got"
    /\ response.kind = "data"
    /\ ~StartsWithPing(response)
    /\ response.privmsg
    /\ parsed' = TRUE
    /\ IF response.cmd \in SyncCommands
       THEN /\ spc' = "cmd_io"
            /\ io_cmd' = response.cmd
            /\ worker' = worker
       ELSE IF response.cmd = "!elo"
       THEN /\ \E cooldown \in BOOLEAN :
                  worker' = IF ~cooldown /\ worker = "idle" THEN "io"
                            ELSE worker
            /\ spc' = "recv"
            /\ io_cmd' = io_cmd
       ELSE /\ spc' = "recv"
            /\ io_cmd' = io_cmd
            /\ worker' = worker
    /\ UNCHANGED <<othervars, running, irc, conn_caller, conn_ret, response,
                   raised, raised_by, attempts, pongs, interrupted>>

\* Data with neither marker: the loop goes round.
HandleOther ==
    /\ spc = "got"
    /\ response.kind = "data"
    /\ ~StartsWithPing(response)
    /\ ~response.privmsg
    /\ spc' = "recv"
    /\ UNCHANGED <<othervars, running, irc, conn_caller, conn_ret, response,
                   raised, raised_by, attempts, pongs, parsed, worker, io_cmd,
                   interrupted>>

\* The handler of !checkelo, !debug or !testapi returns (its own except
\* clauses, and that of _parse_message, keep every exception inside).
CommandReturns ==
    /\ spc = "cmd_io"
    /\ spc' = "recv"
    /\ io_cmd' = "none"
    /\ UNCHANGED <<othervars, running, irc, conn_caller, conn_ret, response,
                   raised, raised_by, attempts, pongs, parsed, worker,
                   interrupted>>

\* _process_elo returns, the !elo thread ends.
WorkerDone ==
    /\ worker = "io"
    /\ worker' = "idle"
    /\ UNCHANGED <<othervars, running, spc, irc, conn_caller, conn_ret,
                   response, raised, raised_by, attempts, pongs, parsed,
                   io_cmd, interrupted>>

\* The except clauses of the inner try block: the socket clause calls
\* _reconnect and sleeps, the two others sleep and the loop goes round. An
\* exception none of them took would reach main(), which calls bot.stop().
HandleException ==
    /\ spc = "except"
    /\ IF Catcher(raised) = "inner_socket"
       THEN /\ spc' = "recon_close"
            /\ UNCHANGED <<running, irc>>
       ELSE IF Catcher(raised) \in {"inner_api", "inner_any"}
       THEN /\ spc' = "recv"
            /\ UNCHANGED <<running, irc>>
       ELSE /\ spc' = "returned"
            /\ running' = FALSE
            /\ irc' = Socket("closed", irc.lines)
    /\ UNCHANGED <<othervars, conn_caller, conn_ret, response, raised,
                   raised_by, attempts, pongs, parsed, worker, io_cmd,
                   interrupted>>

\* _reconnect: self.irc.close(), then sleep and connect_to_twitch(); when
\* close raises, the except clause at line 741 logs it and _reconnect returns.
ReconClose ==
    /\ spc = "recon_close"
    /\ attempts' = 0
    /\ \E ok \in BOOLEAN :
          IF ok
          THEN /\ irc' = Socket("closed", irc.lines)
               /\ spc' = "conn_open"
               /\ conn_caller' = "reconnect"
          ELSE /\ irc' = irc
               /\ spc' = "recon_done"
               /\ conn_caller' = conn_caller
    /\ UNCHANGED <<othervars, running, conn_ret, response, raised, raised_by,
                   pongs, parsed, worker, io_cmd, interrupted>>

\* _reconnect has returned: "continue", or time.sleep(5) and the loop goes
\* round.
ReconReturn ==
    /\ spc = "recon_done"
    /\ spc' = "recv"
    /\ UNCHANGED <<othervars, running, irc, conn_caller, conn_ret, response,
                   raised, raised_by, attempts, pongs, parsed, worker, io_cmd,
                   interrupted>>

\* KeyboardInterrupt in the main thread, wherever run() is: the clause at
\* line 713 (or main()'s) calls stop(), and the outer loop ends.
Interrupt ==
    /\ spc \notin {"main", "returned"}
    /\ interrupted' = TRUE
    /\ running' = FALSE
    /\ irc' = Socket("closed", irc.lines)
    /\ spc' = "returned"
    /\ UNCHANGED <<othervars, conn_caller, conn_ret, response, raised,
                   raised_by, attempts, pongs, parsed, worker, io_cmd>>

NextSession ==
    \/ RunStart
    \/ CallConnect
    \/ ConnOpen
    \/ ConnSend
    \/ ConnReturn
    \/ SessionClean
    \/ RecvData
    \/ RecvRaise
    \/ HandleEmpty
    \/ HandlePing
    \/ HandlePrivmsg
    \/ HandleOther
    \/ CommandReturns
    \/ WorkerDone
    \/ HandleException
    \/ ReconClose
    \/ ReconReturn
    \/ Interrupt

SpecSession == InitSession /\ [][NextSession]_vars

\* ================================================================== claims
\* The !elo threads whose target has not returned.
Running == {i \in Threads : tpc[i] \notin {"idle", "done"}}

\* A step of this kind starts a new !elo thread.
SpawnStep == \E i \in Threads : tpc[i] = "idle" /\ tpc'[i] # "idle"

\* C1: single-flight. At every moment at most one !elo thread is running, and
\* no step taken while an !elo thread is running starts another thread; the
\* run-loop step that drops the command sends no reply. This holds whatever
\* the distance between the clock and last_elo_time.
C1_SingleFlight ==
    /\ [](Cardinality(Running) <= 1)
    /\ [][Running # {} =>
            /\ ~SpawnStep
            /\ (rpc' # rpc => treply' = treply)]_vars

\* C1 witness: a command was dropped by the is_alive test although the
\* cooldown had elapsed, and the thread it ran into is still running.
C1_Witness ==
    /\ last_outcome = "inflight"
    /\ Running # {}
    /\ \E i \in Running : now - tdispatch[i] = elo_cooldown

\* C2: cooldown. Two !elo commands dispatched less than elo_cooldown apart
\* spawn one thread between them, so never two: no two threads were spawned
\* by commands whose dispatch instants are less than elo_cooldown apart.
C2_CooldownOneTask ==
    \A i \in Spawned : \A j \in Spawned :
        i < j => tdispatch[j] - tdispatch[i] >= elo_cooldown

\* C3: the cooldown runs from completion. last_elo_time is written only by an
\* !elo thread, in its last statement, after its send_message call has
\* returned, and never by the step that accepts a command; and a command
\* dispatched less than elo_cooldown after the latest completion (the value
\* last_elo_time had at dispatch) never starts a thread.
C3_CooldownFromCompletion ==
    [][/\ (last_elo_time' # last_elo_time =>
             \E i \in Threads :
                /\ tpc[i] = "stamp"
                /\ tpc'[i] = "done"
                /\ treply[i] # "none"
                /\ last_elo_time' = now')
       /\ (SpawnStep => last_elo_time' = last_elo_time)
       /\ (SpawnStep => current_time - seen_stamp >= elo_cooldown)]_vars

\* C3 witness: a thread has completed; a command dispatched elo_cooldown or
\* more after that thread's command was accepted, but less than elo_cooldown
\* after its completion, was dropped by the cooldown test.
C3_Witness ==
    /\ last_outcome = "cooldown"
    /\ seen_stamp > 0
    /\ current_time - seen_stamp < elo_cooldown
    /\ \E i \in Threads :
          /\ tpc[i] = "done"
          /\ current_time - tdispatch[i] >= elo_cooldown

\* The windows between an operation's read of the file and its write.
InSave(i) == tpc[i] \in {"save_open", "save_dump"}
InReset == tmpc \in {"reset_open", "reset_dump"}
InClean == rpc \in {"clean_open", "clean_dump"}

\* C4: the store serializes its read-modify-write operations: at no moment
\* are two of append, reset_for_new_day and truncate_to_today both between
\* their read of the file and their write.
C4_StoreSerialized ==
    /\ \A i \in Threads : InSave(i) => ~InReset /\ ~InClean
    /\ \A i \in Threads : \A j \in Threads : InSave(i) /\ InSave(j) => i = j
    /\ ~(InReset /\ InClean)

\* ---------------------------------------------------- claims on the store
SetMin(S) == CHOOSE x \in S : \A y \in S : x <= y
SetMax(S) == CHOOSE x \in S : \A y \in S : y <= x

\* Positions of the snapshots of history h dated d.
TodayIdx(h, d) == {i \in 1..Len(h) : Date(h[i].timestamp) = d}

\* Those of them left once the leading zero-rating ones are discarded.
RemainingIdx(h, d) ==
    {i \in TodayIdx(h, d) : \E j \in TodayIdx(h, d) : j <= i /\ h[j].elo # 0}

\* Those of them with a rating different from 0.
NonZeroIdx(h, d) == {i \in TodayIdx(h, d) : h[i].elo # 0}

\* Latest minus first over the positions Q of h, 0 when fewer than two.
LatestMinusFirst(h, Q) ==
    IF Cardinality(Q) < 2 THEN 0 ELSE h[SetMax(Q)].elo - h[SetMin(Q)].elo

\* C5: compute_daily_delta takes the snapshots dated today, discards the
\* leading zero-rating ones and returns the rating of the last one left minus
\* the rating of the first one left, 0 when fewer than two are left.
C5_DailyDelta ==
    store_op = "delta" =>
        store_ret = LatestMinusFirst(store_pre.data,
                                     RemainingIdx(store_pre.data, Date(now)))

\* C5 witness: the seed and two appends of the same day, delta 1.
C5_Witness ==
    /\ store_op = "delta"
    /\ store_prev = "append"
    /\ Len(store_pre.data) = 3
    /\ TodayIdx(store_pre.data, Date(now)) = {1, 2, 3}
    /\ store_pre.data[1].elo = 0
    /\ store_pre.data[2].elo = 1
    /\ store_pre.data[3].elo = 2
    /\ store_ret = 1

\* C6 as stated: the delta is latest minus first over the snapshots of today
\* whose rating differs from 0, wherever the zero-rating ones sit.
C6_ExcludesEveryZero ==
    store_op = "delta" =>
        store_ret = LatestMinusFirst(store_pre.data,
                                     NonZeroIdx(store_pre.data, Date(now)))

\* Every zero-rating snapshot of day d precedes every other snapshot of d.
ZerosLead(h, d) ==
    \A i \in TodayIdx(h, d) : \A j \in TodayIdx(h, d) :
        i < j /\ h[j].elo = 0 => h[i].elo = 0

\* C6 amended: only the leading zero-rating snapshots of the day are
\* excluded. When every zero-rating snapshot of the day precedes the others,
\* the delta is latest minus first over the non-zero ones; when a zero-rating
\* snapshot follows a non-zero one it is kept, and the delta is the rating of
\* the day's last snapshot (zero or not) minus the day's first non-zero one.
C6_LeadingZerosExcluded ==
    store_op = "delta" =>
        LET h == store_pre.data
            d == Date(now)
        IN  IF ZerosLead(h, d)
            THEN store_ret = LatestMinusFirst(h, NonZeroIdx(h, d))
            ELSE store_ret = h[SetMax(TodayIdx(h, d))].elo
                             - h[SetMin(NonZeroIdx(h, d))].elo

\* C6 witness: a zero-rating snapshot follows a non-zero one of today and is
\* used as the latest value.
C6_Witness ==
    /\ store_op = "delta"
    /\ ~ZerosLead(store_pre.data, Date(now))
    /\ store_pre.data[SetMax(TodayIdx(store_pre.data, Date(now)))].elo = 0
    /\ store_ret < 0

\* C7: reset_for_new_day on a readable history leaves exactly one snapshot,
\* stamped now, carrying the rating of the last snapshot held before (0 when
\* the history held none).
C7_ResetKeepsLast ==
    store_op = "reset" /\ store_pre.kind = "json" =>
        /\ elo_file.kind = "json"
        /\ Len(elo_file.data) = 1
        /\ elo_file.data[1].timestamp = now
        /\ elo_file.data[1].elo =
              IF Len(store_pre.data) > 0
              THEN store_pre.data[Len(store_pre.data)].elo
              ELSE 0

\* C7 witness: the history held ratings 1 then 2; the reset left one entry, 2.
C7_Witness ==
    /\ store_op = "reset"
    /\ Len(store_pre.data) = 2
    /\ store_pre.data[1].elo = 1
    /\ store_pre.data[2].elo = 2
    /\ elo_file.data = <<Rec(2, now)>>

\* C8: compute_daily_delta called right after reset_for_new_day returns 0.
C8_ResetThenDeltaZero ==
    store_op = "delta" /\ store_prev = "reset" => store_ret = 0

\* C8 witness: the delta was asked right after a reset that left a rating.
C8_Witness ==
    /\ store_op = "delta"
    /\ store_prev = "reset"
    /\ store_pre.kind = "json"
    /\ Len(store_pre.data) = 1
    /\ store_pre.data[1].elo = 2
    /\ store_ret = 0

\* C9: append(r) turns history H (empty when the file is absent) into H
\* followed by one snapshot with rating r, stamped now.
C9_AppendExtends ==
    store_op = "append" /\ store_pre.kind # "undecodable" =>
        /\ elo_file.kind = "json"
        /\ Len(elo_file.data) = Len(store_pre.data) + 1
        /\ SubSeq(elo_file.data, 1, Len(store_pre.data)) = store_pre.data
        /\ elo_file.data[Len(elo_file.data)] = Rec(store_arg, now)

\* C9 witness: an append onto a history of two different snapshots.
C9_Witness ==
    /\ store_op = "append"
    /\ Len(store_pre.data) = 2
    /\ store_pre.data[1] # store_pre.data[2]
    /\ Len(elo_file.data) = 3
    /\ store_arg = 1

\* ------------------------------------------------- claim on the classifier
\* The player id is on some faction's roster.
InSomeRoster(m) == \E k \in 1..Len(m.teams) : PlayerId \in m.teams[k].players

\* The player's faction: the first one, in roster order, that lists the id.
PlayerFaction(m) ==
    m.teams[SetMin({k \in 1..Len(m.teams) : PlayerId \in m.teams[k].players})].faction

Decided(m) ==
    m.status = "finished" /\ InSomeRoster(m) /\ m.winner # "absent"

\* C10: the outcome is Win exactly when the match is finished, the player is
\* on a roster, a winner is declared and the player's faction is the winner;
\* Loss exactly when the first three hold and the faction differs from the
\* winner; Unknown in every other case.
C10_Classification ==
    outcome # "none" =>
        /\ outcome \in {"win", "loss", "unknown"}
        /\ outcome = "win" <=> (Decided(match) /\ PlayerFaction(match) = match.winner)
        /\ outcome = "loss" <=> (Decided(match) /\ PlayerFaction(match) # match.winner)
        /\ outcome = "unknown" <=> ~Decided(match)

\* C10 witness: a finished match the other faction won is a Loss.
C10_Witness ==
    /\ outcome = "loss"
    /\ match.status = "finished"
    /\ match.winner = "faction1"
    /\ match.teams[1].players = {"other"}
    /\ match.teams[2].players = {"me"}

\* C11: _get_daily_matches never raises; on a failed request (exception,
\* status other than 200, undecodable body) it returns (0, 0); otherwise wins
\* is the number of returned matches classified "win", losses the number
\* classified "loss", and a match classified "unknown" counts in neither, so
\* wins + losses is at most the number of returned matches.
Classified(items, c) ==
    {i \in DOMAIN items : analyze_match(items[i], PlayerId) = c}

C11_DailyMatchCounts ==
    fetch_op = "_get_daily_matches" =>
        /\ fetch_counts.raised = "none"
        /\ IF fetch_mresp.outcome \in {"ok", "noitems"}
           THEN /\ fetch_counts.wins =
                       Cardinality(Classified(fetch_mresp.items, "win"))
                /\ fetch_counts.losses =
                       Cardinality(Classified(fetch_mresp.items, "loss"))
                /\ fetch_counts.wins + fetch_counts.losses
                       <= Len(fetch_mresp.items)
           ELSE fetch_counts.wins = 0 /\ fetch_counts.losses = 0

\* A win, a loss and an unknown match in one answer: counted 1, 1.
C11_Witness ==
    /\ fetch_op = "_get_daily_matches"
    /\ fetch_mresp.outcome = "ok"
    /\ Classified(fetch_mresp.items, "unknown") # {}
    /\ fetch_counts.wins = 1
    /\ fetch_counts.losses = 1

\* C12: get_faceit_stats never raises, whatever the two requests do; when the
\* players request fails (exception, status other than 200, undecodable body,
\* malformed body) or the body names no player id, it returns the empty
\* statistics (Elo 0, Win 0, Lose 0).
C12_StatsNeverRaise ==
    fetch_op = "get_faceit_stats" =>
        /\ fetch_stats.raised = "none"
        /\ fetch_presp.outcome # "ok" =>
               /\ fetch_stats.Elo = 0
               /\ fetch_stats.Win = 0
               /\ fetch_stats.Lose = 0

\* The players request timed out and the call returned the empty statistics.
C12_Witness ==
    /\ fetch_op = "get_faceit_stats"
    /\ fetch_presp.outcome = "timeout"
    /\ fetch_stats = get_empty_stats

\* C13: an !elo thread calls save_elo_record exactly when the rating it
\* fetched is greater than 0. A thread that fetched 0 leaves the file as it
\* is in every step it takes; a thread that fetched more than 0 reads the
\* file and, when the file is readable, writes back what it read followed by
\* one snapshot carrying that rating, so no thread writes a 0 snapshot.
ThreadStep(i) == tpc'[i] # tpc[i]

C13_SaveIffPositive ==
    [][\A i \in Threads :
          /\ (ThreadStep(i) /\ tpc[i] = "fetch") =>
                 (tpc'[i] = "save_read" <=> tstats'[i] > 0)
          /\ (ThreadStep(i) /\ tstats[i] = 0) => elo_file' = elo_file
          /\ (ThreadStep(i) /\ tpc[i] = "save_read"
                /\ elo_file.kind = "json") =>
                 /\ tpc'[i] = "save_open"
                 /\ thist'[i] = Append(elo_file.data, Rec(tstats[i], tts[i]))
          /\ (ThreadStep(i) /\ tpc[i] = "save_dump"
                /\ elo_file'.kind = "json") =>
                 /\ elo_file'.data = thist[i]
                 /\ thist[i][Len(thist[i])].elo = tstats[i]
                 /\ tstats[i] > 0]_vars

\* A first thread fetched a rating above 0 and appended it; a second one
\* fetched 0 and went on to the reply with the file as the first left it.
C13_Witness ==
    \E i \in Threads, j \in Threads :
        /\ tpc[i] = "done"
        /\ tpc[j] = "send"
        /\ tstats[j] = 0
        /\ elo_file.kind = "json"
        /\ Len(elo_file.data) >= 2
        /\ elo_file.data[Len(elo_file.data)].elo > 0
        /\ elo_file.data[Len(elo_file.data)].timestamp >= tdispatch[i]

\* C14: from start-up on there is exactly one reset Timer, pending or
\* running its callback; the callback ends by arming the next Timer, also
\* when reset_daily_stats gave up (file missing or unreadable), and always
\* for 04:00 of the following day, an instant later than the clock. The Timer
\* thread takes its steps whatever the run loop is doing.
InCallback == tmpc \in {"reset_open", "reset_dump"}

\* A step of the Timer thread that leaves the callback.
CallbackEnds == InCallback /\ tmpc' = "armed"

\* A step of the Timer thread in which the Timer fires and reset_daily_stats
\* gives up at once, the file being missing or unreadable.
ResetGivesUp ==
    /\ tmpc = "armed" /\ tmpc' = "armed"
    /\ elo_file.kind # "json"
    /\ now' >= next_reset
    /\ UNCHANGED <<runvars, gatevars, threadvars>>

C14_TimerRearmed ==
    /\ [](timers = IF InCallback THEN 0 ELSE 1)
    /\ [][(CallbackEnds \/ ResetGivesUp) => next_reset' # next_reset]_vars
    /\ [][next_reset' # next_reset =>
            /\ tmpc' = "armed"
            /\ timers' = 1
            /\ next_reset' = next_reset + DayLen
            /\ next_reset' > now']_vars

\* The Timer fired and was armed again for the next day while run() had not
\* connected yet.
C14_Witness ==
    /\ rpc = "connect"
    /\ tmpc = "armed"
    /\ timers = 1
    /\ next_reset = NextReset(Start) + DayLen

\* C15: connect_to_twitch sends PASS, NICK, JOIN in that order and nothing
\* else, and returns True only with the three sent on an open socket; when
\* opening the socket or a send raises, it returns False with the session
\* not joined; every step inside it leads to its return, never to an except
\* clause of run().
Joined(sock) == sock.conn = "open" /\ sock.lines = <<"PASS", "NICK", "JOIN">>

InConnect == spc \in {"conn_open", "conn_send"}

C15_ConnectContract ==
    /\ [](spc = "conn_done" =>
            /\ conn_ret \in {"true", "false"}
            /\ conn_ret = "true" => Joined(irc)
            /\ conn_ret = "false" =>
                   /\ ~Joined(irc)
                   /\ \E n \in 0..2 :
                          irc.lines = SubSeq(<<"PASS", "NICK", "JOIN">>, 1, n))
    /\ [][(InConnect /\ ~interrupted') =>
            /\ spc' \in {spc, "conn_send", "conn_done"}
            /\ raised' = raised
            /\ running' = running]_vars

\* The send of NICK raised: connect_to_twitch returns False with PASS alone
\* on the wire.
C15_Witness ==
    /\ spc = "conn_done"
    /\ conn_ret = "false"
    /\ irc = Socket("open", <<"PASS">>)

\* C16: a read whose data starts with PING is handled by sending PONG, once,
\* and by nothing else: it is not given to _parse_message, no command handler
\* runs and no !elo thread starts, also when the data contains PRIVMSG. When
\* the send of PONG raises, no PONG went out and the exception goes to the
\* except clauses.
PingRead == spc = "got" /\ response.kind = "data" /\ response.ping

C16_PingAnsweredFirst ==
    [][(PingRead /\ spc' # spc /\ ~interrupted') =>
          /\ parsed' = FALSE
          /\ worker' = worker
          /\ io_cmd' = io_cmd
          /\ \/ spc' = "recv" /\ pongs' = 1
             \/ spc' = "except" /\ pongs' = 0 /\ raised_by' = "send"]_vars

\* Data starting with PING and containing a PRIVMSG with !elo: one PONG sent,
\* the data not parsed, the loop back at recv.
C16_Witness ==
    /\ spc = "recv"
    /\ response.kind = "data" /\ response.ping /\ response.privmsg
    /\ response.cmd = "!elo"
    /\ pongs = 1
    /\ ~parsed
    /\ raised = "none"

\* C17: when _reconnect returns it has made exactly one connect attempt,
\* whether or not closing the old socket raised.
C17_OneConnectPerReconnect == spc = "recon_done" => attempts = 1

\* C18: self.running goes from True to False only by a KeyboardInterrupt,
\* and run() returns only then: no exception of recv or send does it.
C18_StoppedOnlyByInterrupt ==
    /\ []((spc # "main" /\ ~running) => interrupted)
    /\ [](spc = "returned" => interrupted)
    /\ [][(running /\ ~running') => (~interrupted /\ interrupted')]_vars

\* recv raised an OSError that is not one of the three named in the socket
\* clause; the loop is back at recv with the bot running.
C18_Witness ==
    /\ spc = "recv"
    /\ raised = "oserror"
    /\ raised_by = "recv"
    /\ running
    /\ ~interrupted

\* C19: every empty read and every exception raised by recv is followed by a
\* call of _reconnect.
ReadFailed ==
    \/ spc = "got" /\ response.kind = "empty"
    \/ spc = "except" /\ raised_by = "recv"

C19_ReadFailureReconnects ==
    [][(ReadFailed /\ spc' # spc /\ ~interrupted') =>
          spc' = "recon_close"]_vars

\* C20, as stated: the thread executing run() is never inside a command
\* handler that issues API requests or reads the history file.
C20_CommandWorkOffReadLoop == spc # "cmd_io"

\* C20, amended: only the work of !elo is done off the thread executing
\* run(): the step that handles an !elo message leads straight back to recv,
\* with the requests and the file access left to the !elo thread, so a PING
\* is read and answered while that thread is busy. The handlers of !checkelo,
\* !debug and !testapi, and no others, run inside the read loop, which reads
\* nothing until the handler returns.
EloMessage ==
    /\ spc = "got"
    /\ response.kind = "data" /\ ~response.ping /\ response.privmsg
    /\ response.cmd = "!elo"

C20_OnlyEloOffReadLoop ==
    /\ [](spc = "cmd_io" => io_cmd \in {"!checkelo", "!debug", "!testapi"})
    /\ [][(EloMessage /\ spc' # spc /\ ~interrupted') =>
            /\ spc' = "recv"
            /\ io_cmd' = "none"]_vars
    /\ [][(spc = "cmd_io" /\ ~interrupted') =>
            /\ pongs' = pongs
            /\ response' = response
            /\ spc' \in {"cmd_io", "recv"}]_vars

\* A PING was read and answered with PONG while the !elo thread was busy.
C20_Witness ==
    /\ worker = "io"
    /\ spc = "recv"
    /\ response.kind = "data" /\ response.ping
    /\ pongs = 1

\* ------------------------------------------- claims on the running store
\* C21: the daily change an !elo thread puts in its reply is computed from
\* the history that already holds the snapshot this thread persists: whenever
\* a thread that fetched a rating above 0 takes its daily change, the value is
\* the one get_daily_elo_change gives on the file with that snapshot appended.
C21_DeltaIncludesOwnSnapshot ==
    [][\A i \in Threads :
          (ThreadStep(i) /\ tpc[i] = "fetch" /\ ShouldSave(tstats'[i])) =>
              tdelta'[i] = get_daily_elo_change(
                               save_elo_record(elo_file, tstats'[i], tts'[i]),
                               Date(tts'[i]))]_vars

\* C22: the history the file holds is never empty: whenever the file holds a
\* JSON array, the array has at least one snapshot.
C22_HistoryNonEmpty == elo_file.kind = "json" => Len(elo_file.data) > 0

\* C23: the snapshots of the history are in chronological order: whenever the
\* file holds a JSON array, no snapshot carries an earlier timestamp than the
\* snapshot before it.
C23_TimestampsNonDecreasing ==
    elo_file.kind = "json" =>
        \A k \in 1..(Len(elo_file.data) - 1) :
            elo_file.data[k].timestamp <= elo_file.data[k + 1].timestamp

\* A step in which a store operation opens the file and reads it:
\* get_daily_elo_change or save_elo_record on an !elo thread,
\* clean_old_elo_records on the thread of run(), reset_daily_stats on the
\* Timer thread.
ReadsFile ==
    \/ \E i \in Threads : ThreadStep(i) /\ tpc[i] \in {"fetch", "save_read"}
    \/ rpc = "clean" /\ rpc' # rpc
    \/ tmpc = "armed" /\ (tmpc' # tmpc \/ next_reset' # next_reset)

\* C24: every write replaces the whole history atomically, so an operation
\* that reads the file while another thread writes it finds the complete old
\* or the complete new history: no read ever meets a file that is truncated
\* or partly written.
C24_WritesAtomic == [][ReadsFile => elo_file.kind = "json"]_vars

\* The dates the snapshots of a history carry.
DatesOf(h) == {Date(h[k].timestamp) : k \in 1..Len(h)}

\* C25: in the running bot a snapshot with rating 0 is only ever the first
\* element of the history, never one that follows another snapshot; hence
\* what get_daily_elo_change keeps of any day, after dropping the leading
\* zero-rating snapshots, holds no zero-rating snapshot at all.
C25_ZeroOnlyFirst ==
    elo_file.kind = "json" =>
        /\ \A k \in 2..Len(elo_file.data) : elo_file.data[k].elo # 0
        /\ \A d \in DatesOf(elo_file.data) :
              LET kept == DropLeadingZeros(DailyRecords(elo_file.data, d))
              IN  \A k \in 1..Len(kept) : kept[k].elo # 0

\* The seed snapshot is still the first element and an !elo thread has
\* appended a fetched rating behind it, on the same day.
C25_Witness ==
    /\ elo_file.kind = "json"
    /\ Len(elo_file.data) >= 2
    /\ elo_file.data[1].elo = 0
    /\ elo_file.data[2].elo > 0
    /\ Date(elo_file.data[1].timestamp) = Date(elo_file.data[2].timestamp)
    /\ \E i \in Threads : tpc[i] = "done"

\* ------------------------------------------------- claims on termination
\* A step of run() in which _handle_elo_command reads the clock.
DispatchStep == rpc = "recv" /\ current_time' # current_time

\* C26: no permanent lockout. Every !elo thread that was started ends,
\* whatever its fetch, its store operations and its send did, and its last
\* step writes the clock into last_elo_time; and a command dispatched
\* elo_cooldown or more after the latest completion passes the cooldown test
\* and, no thread running, starts a new thread.
C26_NoPermanentLockout ==
    /\ \A i \in Threads : (i \in Running) ~> (tpc[i] = "done")
    /\ [][\A i \in Threads :
             (ThreadStep(i) /\ tpc'[i] = "done") =>
                 /\ tpc[i] = "stamp"
                 /\ last_elo_time' = now']_vars
    /\ [][(DispatchStep /\ current_time' - last_elo_time >= elo_cooldown) =>
              rpc' = "elo_alive"]_vars
    /\ [][(rpc = "elo_alive" /\ rpc' # rpc /\ Running = {}) =>
              SpawnStep]_vars

\* A first thread has ended, whether its reply went out or not, and a command
\* dispatched elo_cooldown or more after its completion started a second one.
C26_Witness ==
    /\ tpc[1] = "done"
    /\ tpc[2] = "fetch"
    /\ last_elo_time > 0
    /\ tdispatch[2] - last_elo_time >= elo_cooldown

====
